---- MODULE Spec2Model ----
(***************************************************************************)
(* EdgeInsets (screen-space padding of a viewport) and the AbortError      *)
(* helpers of src/util/abort_error.ts.                                     *)
(*                                                                         *)
(* JavaScript numbers are modelled as tagged values: a finite number is an *)
(* exact rational n/d in lowest terms (every value used here is a small    *)
(* dyadic rational, which an IEEE double represents exactly), and NaN,     *)
(* +Infinity, -Infinity and undefined are values of their own with the     *)
(* arithmetic and comparison rules of the language.                        *)
(***************************************************************************)
EXTENDS Integers, FiniteSets, Sequences, TLC

VARIABLES
    objs,   \* the heap: the fields of each EdgeInsets instance
    live,   \* the instances a caller holds (constructed successfully)
    snap,   \* per instance: its first toJSON() since its last interpolate
    last    \* the last call: operation, receiver, arguments, outcome

vars == <<objs, live, snap, last>>

---------------------------------------------------------------------------
(* Bounds of the model. *)

\* The non-zero padding value handed to the constructor and in records.
MaxPad == 2
\* The non-zero viewport width and height handed to getCenter.
MaxDim == 1
\* Number of EdgeInsets instances alive at once (a model and its clones).
MaxObjs == 2

---------------------------------------------------------------------------
(* JavaScript numbers. *)

Abs(i) == IF i < 0 THEN -i ELSE i

RECURSIVE GCD(_, _)
GCD(a, b) == IF b = 0 THEN a ELSE GCD(b, a % b)

NaN == [k |-> "nan", n |-> 0, d |-> 1]
PInf == [k |-> "inf", n |-> 1, d |-> 1]
NInf == [k |-> "inf", n |-> -1, d |-> 1]
Undef == [k |-> "undef", n |-> 0, d |-> 1]

\* The finite number n/d (d > 0), in lowest terms.
Fin(n, d) ==
    LET g == GCD(Abs(n), d)
    IN  [k |-> "fin", n |-> n \div g, d |-> d \div g]

Int2Num(i) == Fin(i, 1)

\* -1, 0 or 1: the sign of a finite or infinite number.
Sign(a) == IF a.n > 0 THEN 1 ELSE IF a.n < 0 THEN -1 ELSE 0

\* ToNumber: undefined converts to NaN wherever a number is needed.
ToNumber(a) == IF a.k = "undef" THEN NaN ELSE a

\* a + b
Add(x, y) ==
    LET a == ToNumber(x)
        b == ToNumber(y)
    IN  IF a.k = "nan" \/ b.k = "nan" THEN NaN
        ELSE IF a.k = "inf" /\ b.k = "inf"
             THEN IF a.n = b.n THEN a ELSE NaN
        ELSE IF a.k = "inf" THEN a
        ELSE IF b.k = "inf" THEN b
        ELSE Fin(a.n * b.d + b.n * a.d, a.d * b.d)

\* -a
Neg(x) ==
    LET a == ToNumber(x)
    IN  IF a.k = "nan" THEN NaN ELSE [a EXCEPT !.n = -a.n]

\* a - b
Sub(x, y) == Add(x, Neg(y))

\* a * b
Mul(x, y) ==
    LET a == ToNumber(x)
        b == ToNumber(y)
    IN  IF a.k = "nan" \/ b.k = "nan" THEN NaN
        ELSE IF a.k = "inf" \/ b.k = "inf"
             THEN IF Sign(a) * Sign(b) = 0 THEN NaN
                  ELSE IF Sign(a) * Sign(b) > 0 THEN PInf ELSE NInf
        ELSE Fin(a.n * b.n, a.d * b.d)

\* a / 2
Half(x) ==
    LET a == ToNumber(x)
    IN  IF a.k = "fin" THEN Fin(a.n, a.d * 2) ELSE a

\* a < b (false when either side is NaN)
Lt(x, y) ==
    LET a == ToNumber(x)
        b == ToNumber(y)
    IN  IF a.k = "nan" \/ b.k = "nan" THEN FALSE
        ELSE IF a.k = "inf" THEN a.n < 0 /\ ~(b.k = "inf" /\ b.n < 0)
        ELSE IF b.k = "inf" THEN b.n > 0
        ELSE a.n * b.d < b.n * a.d

\* a === b on numbers and undefined
StrictEq(a, b) ==
    IF a.k = "undef" \/ b.k = "undef" THEN a.k = b.k
    ELSE IF a.k = "nan" \/ b.k = "nan" THEN FALSE
    ELSE a = b

\* a <= b
Le(a, b) == Lt(a, b) \/ (ToNumber(a).k # "nan" /\ StrictEq(ToNumber(a), ToNumber(b)))

\* isNaN(a)
IsNaN(a) == ToNumber(a).k = "nan"

\* a != null
NotNull(a) == a.k # "undef"

\* Math.max(a, b), Math.min(a, b)
MathMax(x, y) ==
    LET a == ToNumber(x)
        b == ToNumber(y)
    IN  IF a.k = "nan" \/ b.k = "nan" THEN NaN ELSE IF Lt(a, b) THEN b ELSE a

MathMin(x, y) ==
    LET a == ToNumber(x)
        b == ToNumber(y)
    IN  IF a.k = "nan" \/ b.k = "nan" THEN NaN ELSE IF Lt(b, a) THEN b ELSE a

Zero == Int2Num(0)

---------------------------------------------------------------------------
(* The abort-error helpers. An Error is a record with its message. *)

ABORT_ERROR == "AbortError"

\* new Error(message)
Error(message) == [message |-> message]

\* A faulty variant: compares the message without regard to case.
isAbortError_CaseInsensitive(error) ==
    error.message \in {"AbortError", "aborterror", "ABORTERROR"}

isAbortError(error) == error.message = ABORT_ERROR

createAbortError == Error(ABORT_ERROR)

---------------------------------------------------------------------------
(* Collaborators of EdgeInsets that live outside this file. *)

\* interpolates.number(a, b, t): linear interpolation a + (b - a) * t
number(a, b, t) == Add(a, Mul(Sub(b, a), t))

\* clamp(n, min, max) == Math.min(max, Math.max(min, n))
clamp(n, min, max) == MathMin(max, MathMax(min, n))

\* new Point(x, y)
Point(x, y) == [x |-> x, y |-> y]

---------------------------------------------------------------------------
(* EdgeInsets. An instance is the record of its four fields; a field that  *)
(* has not been assigned reads as undefined.                               *)

Fields == {"top", "bottom", "left", "right"}

\* The fields of `this` when a constructor starts to run.
Blank == [top |-> Undef, bottom |-> Undef, left |-> Undef, right |-> Undef]

\* A parameter with default value 0: the default replaces undefined only.
Default0(a) == IF a.k = "undef" THEN Zero ELSE a

\* A faulty variant: top is validated and assigned before the other
\* arguments are validated.
EdgeInsetsNew_AssignFirst(atop, abottom, aleft, aright) ==
    LET top == Default0(atop)
        bottom == Default0(abottom)
        left == Default0(aleft)
        right == Default0(aright)
    IN  IF IsNaN(top) \/ Lt(top, Zero)
        THEN [threw |-> TRUE, this |-> Blank]
        ELSE IF IsNaN(bottom) \/ Lt(bottom, Zero) \/
                IsNaN(left) \/ Lt(left, Zero) \/
                IsNaN(right) \/ Lt(right, Zero)
        THEN [threw |-> TRUE, this |-> [Blank EXCEPT !.top = top]]
        ELSE [threw |-> FALSE,
              this |-> [top |-> top, bottom |-> bottom,
                        left |-> left, right |-> right]]

\* The constructor run on a fresh `this`: whether it threw, and the fields
\* of `this` when it returned or threw.
EdgeInsetsNew(atop, abottom, aleft, aright) ==
    LET top == Default0(atop)
        bottom == Default0(abottom)
        left == Default0(aleft)
        right == Default0(aright)
    IN  IF IsNaN(top) \/ Lt(top, Zero) \/
           IsNaN(bottom) \/ Lt(bottom, Zero) \/
           IsNaN(left) \/ Lt(left, Zero) \/
           IsNaN(right) \/ Lt(right, Zero)
        THEN [threw |-> TRUE, this |-> Blank]
        ELSE [threw |-> FALSE,
              this |-> [top |-> top, bottom |-> bottom,
                        left |-> left, right |-> right]]

\* A faulty variant: t is clamped to [0, 1] first.
interpolate_ClampT(this, start, target, t) ==
    LET u == clamp(t, Zero, Int2Num(1))
    IN  [f \in Fields |->
            IF NotNull(target[f]) /\ NotNull(start[f])
            THEN number(start[f], target[f], u)
            ELSE this[f]]

\* interpolate(start, target, t): the fields of `this` afterwards.
interpolate(this, start, target, t) ==
    [top |-> IF NotNull(target.top) /\ NotNull(start.top)
             THEN number(start.top, target.top, t) ELSE this.top,
     bottom |-> IF NotNull(target.bottom) /\ NotNull(start.bottom)
                THEN number(start.bottom, target.bottom, t) ELSE this.bottom,
     left |-> IF NotNull(target.left) /\ NotNull(start.left)
              THEN number(start.left, target.left, t) ELSE this.left,
     right |-> IF NotNull(target.right) /\ NotNull(start.right)
               THEN number(start.right, target.right, t) ELSE this.right]

\* getCenter(width, height)
getCenter(this, width, height) ==
    LET x == clamp(Half(Sub(Add(this.left, width), this.right)), Zero, width)
        y == clamp(Half(Sub(Add(this.top, height), this.bottom)), Zero, height)
    IN  Point(x, y)

\* A faulty variant: right is not compared.
equals_SkipRight(this, other) ==
    /\ StrictEq(this.top, other.top)
    /\ StrictEq(this.bottom, other.bottom)
    /\ StrictEq(this.left, other.left)

\* equals(other)
equals(this, other) ==
    /\ StrictEq(this.top, other.top)
    /\ StrictEq(this.bottom, other.bottom)
    /\ StrictEq(this.left, other.left)
    /\ StrictEq(this.right, other.right)

\* clone(): the constructor run on the receiver's fields.
clone(this) == EdgeInsetsNew(this.top, this.bottom, this.left, this.right)

\* toJSON()
toJSON(this) ==
    [top |-> this.top, bottom |-> this.bottom,
     left |-> this.left, right |-> this.right]

---------------------------------------------------------------------------
(* Inputs. A PaddingOptions record has the four keys; an omitted key reads *)
(* as undefined.                                                           *)

Pad == Int2Num(MaxPad)
Dim == Int2Num(MaxDim)

Opt(top, bottom, left, right) ==
    [top |-> top, bottom |-> bottom, left |-> left, right |-> right]

\* Constructor arguments: omitted, NaN, negative, finite, infinite.
ArgVals == {Undef, NaN, Int2Num(-1), Pad, PInf}
CtorArgs == ArgVals \X ArgVals \X ArgVals \X ArgVals

StartRecs ==
    { Opt(Zero, Undef, Undef, Undef),
      Opt(Zero, Zero, Pad, Pad),
      Opt(Undef, Undef, PInf, Zero) }

TargetRecs ==
    { Opt(Undef, Undef, Undef, Undef),
      Opt(Pad, Undef, Undef, Undef),
      Opt(Pad, Pad, Zero, Zero) }

\* Steps below 0, inside [0, 1] and above 1, and a step that is no number.
TVals == {Fin(-1, 2), Fin(1, 2), Fin(3, 2), NaN}

Dims == {Zero, Dim}

\* Records compared by equals, besides the receiver's own fields.
OtherRecs ==
    { Opt(Zero, Zero, Zero, Zero),
      Opt(Zero, Zero, Zero, Undef),
      Opt(Zero, Zero, Zero, Pad) }

Messages == {"AbortError", "aborterror", "AbortError: cancelled", "boom", ""}

\* The smaller inputs used where several instances are alive.
CtorArgsC == { <<Undef, Undef, Undef, Undef>>, <<Pad, Pad, Pad, Pad>> }
StartRecsC == { Opt(Zero, Undef, Pad, Undef) }
TargetRecsC == { Opt(Pad, Undef, Zero, Undef), Opt(Undef, Undef, Undef, Pad) }
TValsC == {Fin(-1, 2), Fin(1, 2), Fin(3, 2)}
DimsC == {Dim}
OtherRecsC == { Opt(Zero, Zero, Zero, Zero) }

---------------------------------------------------------------------------
(* The state machine. *)

ObjIds == 1..MaxObjs

\* No toJSON() of the instance since its last interpolate.
NoSnap == {}
Nil == "nil"

Call(op, self, a, b, c, ret, threw) ==
    [op |-> op, self |-> self, a |-> a, b |-> b, c |-> c,
     ret |-> ret, threw |-> threw, before |-> objs, held |-> live]

Init ==
    /\ objs = [o \in ObjIds |-> Blank]
    /\ live = {}
    /\ snap = [o \in ObjIds |-> NoSnap]
    /\ last = [op |-> "init", self |-> 0, a |-> Nil, b |-> Nil, c |-> Nil,
               ret |-> Nil, threw |-> FALSE,
               before |-> [o \in ObjIds |-> Blank], held |-> {}]

\* The lowest instance id not in use.
FreeId == CHOOSE o \in ObjIds \ live : \A p \in ObjIds \ live : o <= p

\* new EdgeInsets(top, bottom, left, right), when no instance exists yet.
Construct(Args) ==
    /\ live = {}
    /\ \E args \in Args :
        LET r == EdgeInsetsNew(args[1], args[2], args[3], args[4])
            o == FreeId
        IN  /\ objs' = [objs EXCEPT ![o] = r.this]
            /\ live' = IF r.threw THEN live ELSE live \cup {o}
            /\ last' = Call("new", o, args, Nil, Nil,
                            IF r.threw THEN Nil ELSE o, r.threw)
    /\ UNCHANGED snap

\* o.interpolate(start, target, t)
Interpolate(Starts, Targets, Ts) ==
    \E o \in live, start \in Starts, target \in Targets, t \in Ts :
        /\ objs' = [objs EXCEPT ![o] = interpolate(objs[o], start, target, t)]
        /\ snap' = [snap EXCEPT ![o] = NoSnap]
        /\ last' = Call("interpolate", o, start, target, t, o, FALSE)
        /\ UNCHANGED live

\* A faulty variant: the clamped insets are written back to the receiver.
GetCenter_ClampInPlace(Ds) ==
    \E o \in live, width \in Ds, height \in Ds :
        /\ last' = Call("getCenter", o, width, height, Nil,
                        getCenter(objs[o], width, height), FALSE)
        /\ objs' = [objs EXCEPT ![o].left = clamp(@, Zero, width),
                                ![o].top = clamp(@, Zero, height)]
        /\ UNCHANGED <<live, snap>>

\* o.getCenter(width, height)
GetCenter(Ds) ==
    \E o \in live, width \in Ds, height \in Ds :
        /\ last' = Call("getCenter", o, width, height, Nil,
                        getCenter(objs[o], width, height), FALSE)
        /\ UNCHANGED <<objs, live, snap>>

\* o.equals(other), with a given record or the receiver's own fields
Equals(Others) ==
    \E o \in live :
        \E other \in Others \cup {objs[o]} :
            /\ last' = Call("equals", o, other, Nil, Nil,
                            equals(objs[o], other), FALSE)
            /\ UNCHANGED <<objs, live, snap>>

\* A faulty variant: the receiver itself is returned.
Clone_ReturnThis ==
    /\ live # ObjIds
    /\ \E o \in live :
        LET r == clone(objs[o])
        IN  /\ last' = Call("clone", o, Nil, Nil, Nil,
                            IF r.threw THEN Nil ELSE o, r.threw)
            /\ UNCHANGED <<objs, live>>
    /\ UNCHANGED snap

\* o.clone(), while there is room for another instance
Clone ==
    /\ live # ObjIds
    /\ \E o \in live :
        LET r == clone(objs[o])
            c == FreeId
        IN  /\ objs' = [objs EXCEPT ![c] = r.this]
            /\ live' = IF r.threw THEN live ELSE live \cup {c}
            /\ last' = Call("clone", o, Nil, Nil, Nil,
                            IF r.threw THEN Nil ELSE c, r.threw)
    /\ UNCHANGED snap

\* o.toJSON(); the call's record keeps, in b, the snapshot taken before it
ToJSON ==
    \E o \in live :
        /\ last' = Call("toJSON", o, Nil, snap[o], Nil, toJSON(objs[o]), FALSE)
        /\ snap' = [snap EXCEPT ![o] = IF @ = NoSnap THEN {toJSON(objs[o])} ELSE @]
        /\ UNCHANGED <<objs, live>>

\* createAbortError()
CreateAbortError ==
    /\ last' = Call("createAbortError", 0, Nil, Nil, Nil, createAbortError, FALSE)
    /\ UNCHANGED <<objs, live, snap>>

\* isAbortError(error), on an error with a given message ("given") or on the
\* error createAbortError() has just returned ("created")
IsAbortError ==
    \/ \E m \in Messages :
        /\ last' = Call("isAbortError", 0, Error(m), "given", Nil,
                        isAbortError(Error(m)), FALSE)
        /\ UNCHANGED <<objs, live, snap>>
    \/ /\ last.op = "createAbortError"
       /\ last' = Call("isAbortError", 0, last.ret, "created", Nil,
                       isAbortError(last.ret), FALSE)
       /\ UNCHANGED <<objs, live, snap>>

\* One model driven by its owner.
Next ==
    \/ Construct(CtorArgs)
    \/ Interpolate(StartRecs, TargetRecs, TVals)
    \/ GetCenter(Dims)
    \/ Equals(OtherRecs)
    \/ CreateAbortError
    \/ IsAbortError

Spec == Init /\ [][Next]_vars

\* A model and its clones.
NextClone ==
    \/ Construct(CtorArgsC)
    \/ Interpolate(StartRecsC, TargetRecsC, TValsC)
    \/ GetCenter(DimsC)
    \/ Equals(OtherRecsC)
    \/ Clone
    \/ ToJSON

SpecClone == Init /\ [][NextClone]_vars

---------------------------------------------------------------------------
(* Properties. `last` holds the call that produced the state: its         *)
(* receiver `self`, its arguments a, b, c, what it returned, whether it   *)
(* threw, and the heap and the held instances before it ran.              *)

\* A number, as opposed to NaN or undefined.
IsNumber(a) == a.k \in {"fin", "inf"}

\* a is a number below zero.
IsNegative(a) == IsNumber(a) /\ a.n < 0

\* Two numbers that are the same number (NaN and undefined are no numbers).
SameNumber(a, b) == IsNumber(a) /\ IsNumber(b) /\ a.k = b.k /\ a.n * b.d = b.n * a.d

\* C1: after a successful construction and any sequence of interpolate
\* calls, all four fields of an instance are finite and >= 0.
C1_FieldsFiniteNonNegative ==
    \A o \in live : \A f \in Fields :
        objs[o][f].k = "fin" /\ objs[o][f].n >= 0

\* C2: the constructor throws iff some argument is NaN or negative; when it
\* throws no field has been assigned and no instance is produced; when it
\* succeeds each field is its argument, 0 for an omitted argument.
C2_ConstructorValidates ==
    last.op = "new" =>
        LET args == last.a
            bad == \E i \in 1..4 : args[i].k = "nan" \/ IsNegative(args[i])
            given(i) == IF args[i].k = "undef" THEN Int2Num(0) ELSE args[i]
        IN  /\ last.threw <=> bad
            /\ last.threw =>
                  /\ live = {}
                  /\ \A f \in Fields : objs[last.self][f].k = "undef"
            /\ ~last.threw =>
                  /\ live = {last.self}
                  /\ objs[last.self].top = given(1)
                  /\ objs[last.self].bottom = given(2)
                  /\ objs[last.self].left = given(3)
                  /\ objs[last.self].right = given(4)

\* A construction rejected for its last argument alone, the first one valid.
C2_Witness ==
    /\ last.op = "new"
    /\ last.threw
    /\ last.a = <<Pad, PInf, Undef, Int2Num(-1)>>

\* C3: interpolate(start, target, t) sets each field that start and target
\* both define to start + (target - start) * t, for any t, and keeps every
\* other field; it never throws.
C3_InterpolatePerField ==
    last.op = "interpolate" =>
        /\ ~last.threw
        /\ \A f \in Fields :
            IF last.a[f].k # "undef" /\ last.b[f].k # "undef"
            THEN objs[last.self][f] =
                    Add(last.a[f], Mul(Sub(last.b[f], last.a[f]), last.c))
            ELSE objs[last.self][f] = last.before[last.self][f]

\* An extrapolating step (t = 3/2) that moved top past the target and kept
\* bottom, which the target omits, at its previous non-zero value.
C3_Witness ==
    /\ last.op = "interpolate"
    /\ last.c = Fin(3, 2)
    /\ last.a = Opt(Zero, Zero, Pad, Pad)
    /\ last.b = Opt(Pad, Undef, Undef, Undef)
    /\ objs[last.self].top = Fin(3 * MaxPad, 2)
    /\ last.before[last.self].top = PInf
    /\ objs[last.self].bottom = Pad

\* C4: getCenter(width, height) never throws and returns a point with
\* 0 <= x <= width and 0 <= y <= height.
C4_CenterInsideViewport ==
    last.op = "getCenter" =>
        /\ ~last.threw
        /\ Le(Zero, last.ret.x) /\ Le(last.ret.x, last.a)
        /\ Le(Zero, last.ret.y) /\ Le(last.ret.y, last.b)

\* C5: for every model m, m.clone().toJSON() completes and
\* m.equals(m.clone().toJSON()) is true.
C5_CloneRoundTrip ==
    \A o \in live :
        LET c == clone(objs[o])
        IN  ~c.threw /\ equals(objs[o], toJSON(c.this))

\* C6: getCenter returns x = clamp((left + width - right) / 2, 0, width) and
\* y = clamp((top + height - bottom) / 2, 0, height); with left = right and
\* top = bottom that is the geometric center (width / 2, height / 2).
C6_CenterFormula ==
    last.op = "getCenter" =>
        LET m == last.before[last.self]
            w == last.a
            h == last.b
        IN  /\ last.ret.x =
                  MathMin(w, MathMax(Zero, Half(Sub(Add(m.left, w), m.right))))
            /\ last.ret.y =
                  MathMin(h, MathMax(Zero, Half(Sub(Add(m.top, h), m.bottom))))
            /\ (StrictEq(m.left, m.right) /\ StrictEq(m.top, m.bottom)) =>
                  /\ last.ret.x = Half(w)
                  /\ last.ret.y = Half(h)

\* C7: equals(other) is true iff each of other's four values is the same
\* number as the model's field (strict equality: NaN equals nothing); it is
\* false for every record that omits a key.
C7_EqualsFieldwise ==
    last.op = "equals" =>
        LET m == last.before[last.self]
            other == last.a
        IN  /\ last.ret <=> \A f \in Fields : SameNumber(m[f], other[f])
            /\ (\E f \in Fields : other[f].k = "undef") => ~last.ret

\* equals against a record that differs in the last field compared only.
C7_Witness ==
    /\ last.op = "equals"
    /\ ~last.ret
    /\ last.a = Opt(Zero, Zero, Zero, Pad)
    /\ objs[last.self] = Opt(Zero, Zero, Zero, Zero)

\* C8: isAbortError(error) is true iff error.message is exactly
\* "AbortError"; createAbortError() returns an error with that message, on
\* which isAbortError is true.
C8_AbortErrorExact ==
    /\ last.op = "isAbortError" =>
          /\ last.ret <=> (last.a.message = "AbortError")
          /\ last.b = "created" => last.ret
    /\ last.op = "createAbortError" => last.ret.message = "AbortError"

\* isAbortError answered on the error createAbortError() returned.
C8_Witness ==
    /\ last.op = "isAbortError"
    /\ last.b = "created"
    /\ last.ret

\* C9: getCenter, equals, clone and toJSON leave the receiver's fields
\* unchanged, and a toJSON() returns the same record as the first toJSON()
\* since the receiver's last interpolate.
C9_OnlyInterpolateMutates ==
    /\ last.op \in {"getCenter", "equals", "clone", "toJSON"} =>
          objs[last.self] = last.before[last.self]
    /\ last.op = "toJSON" =>
          /\ snap[last.self] = {last.ret}
          /\ last.b # NoSnap => last.b = {last.ret}

\* A second toJSON() of an instance that was interpolated to a negative top (t = -1/2)
\* and not interpolated since its first toJSON().
C9_Witness ==
    /\ last.op = "toJSON"
    /\ last.b # NoSnap
    /\ objs[last.self].top = Fin(-MaxPad, 2)

\* C10: clone() returns a new instance with the receiver's field values,
\* and interpolate on one instance leaves every other instance unchanged.
C10_CloneIndependent ==
    /\ (last.op = "clone" /\ ~last.threw) =>
          /\ last.ret # last.self
          /\ last.ret \notin last.held
          /\ last.ret \in live
          /\ objs[last.ret] = last.before[last.self]
          /\ objs[last.self] = last.before[last.self]
    /\ last.op = "interpolate" =>
          \A o \in ObjIds \ {last.self} : objs[o] = last.before[o]

\* An interpolate on a clone whose fields now differ from its original's.
C10_Witness ==
    /\ last.op = "interpolate"
    /\ Cardinality(live) >= 2
    /\ last.self = 2
    /\ objs[2] # objs[1]
    /\ objs[1] = last.before[1]
    /\ last.before[2] = last.before[1]

====
